---- MODULE Spec2Model ----
(***************************************************************************)
(* A model of etnleveraged.py, the investment backtest tool: the backtest  *)
(* pipeline (fetch_data, calculate_investment, resample_data, the two      *)
(* display functions and backtest_stock), the chart's scroll handler       *)
(* on_chart_zoom and the drag handlers on_drag_start / on_drag_motion.     *)
(*                                                                         *)
(* Numbers.  The program computes in IEEE floating point.  A float is      *)
(* modelled as an extended rational [n, d] in lowest terms with d >= 0:    *)
(* d = 0 stands for the non-finite values (n = 1: +inf, n = -1: -inf,      *)
(* n = 0: NaN), so that x / 0, inf * 0 and the like give what numpy gives. *)
(* Rounding is not modelled: finite results are exact.                     *)
(***************************************************************************)
EXTENDS Integers, Sequences, FiniteSets

VARIABLES
    text_area,      \* the results widget: what it displays
    chart_frame,    \* the chart frame: the canvases it holds (none or one)
    last,           \* history: the last backtest request and how it ended
    calc_in,        \* calculate_investment alone: its arguments
    calc_out,       \* calculate_investment alone: <<>> or <<what it returned>>
    rs_in,          \* resample_data alone: its argument
    rs_out,         \* resample_data alone: <<>> or <<what it returned>>
    xlim,           \* the chart axes' x bounds <<min, max>>
    ylim,           \* the chart axes' y bounds <<min, max>>
    zoom_log,       \* history: the bounds at construction, then each scroll event and the bounds after it
    widget_pos,     \* the draggable widget's position in its parent (winfo_x, winfo_y)
    drag_start,     \* widget._drag_start_x / _y, <<>> while the attributes are not set
    button1,        \* whether mouse button 1 is held down
    press,          \* history: the widget position and the pointer position at the last press
    samples         \* history: the pointer positions of the motion samples since the last press

vars == <<text_area, chart_frame, last, calc_in, calc_out, rs_in, rs_out,
          xlim, ylim, zoom_log, widget_pos, drag_start, button1, press, samples>>

backtest_vars == <<text_area, chart_frame, last>>
calc_vars == <<calc_in, calc_out>>
rs_vars == <<rs_in, rs_out>>
zoom_vars == <<xlim, ylim, zoom_log>>
drag_vars == <<widget_pos, drag_start, button1, press, samples>>

----------------------------------------------------------------------------
(* Bounds of the model. *)

\* The largest close price a fetched bar carries (prices are 0..MaxClose).
MaxClose == 2
\* The largest number of bars one fetch returns.
MaxFetch == 2
\* The largest number of bars given to resample_data alone.
MaxBars == 3
\* The largest number of scroll events handled on one chart.
MaxGestures == 3
\* The largest number of motion samples recorded in one drag gesture.
MaxSamples == 3
\* The draggable widget's width and height in pixels.
WidgetSize == 4

----------------------------------------------------------------------------
(* Floating point numbers as extended rationals. *)

Abs(x) == IF x < 0 THEN -x ELSE x

Sign(x) == IF x < 0 THEN -1 ELSE IF x > 0 THEN 1 ELSE 0

RECURSIVE GCD(_, _)
GCD(a, b) == IF b = 0 THEN a ELSE GCD(b, a % b)

\* n / d in lowest terms; a zero denominator gives +inf, -inf or NaN.
Norm(n, d) ==
    IF d = 0 THEN [n |-> Sign(n), d |-> 0]
    ELSE LET g == GCD(Abs(n), Abs(d))
             s == IF d < 0 THEN -1 ELSE 1
         IN  [n |-> (s * n) \div g, d |-> (s * d) \div g]

\* The float of an integer.
F(i) == [n |-> i, d |-> 1]

NaN == [n |-> 0, d |-> 0]
Inf == [n |-> 1, d |-> 0]

IsFinite(a) == a.d # 0

Mul(a, b) == Norm(a.n * b.n, a.d * b.d)
Div(a, b) == Norm(a.n * b.d, a.d * b.n)

\* a + b and a - b over the least common denominator (inf - inf is NaN).
Add(a, b) ==
    IF a.d = 0 \/ b.d = 0 THEN Norm(a.n * b.d + b.n * a.d, 0)
    ELSE LET g == GCD(a.d, b.d)
         IN  Norm(a.n * (b.d \div g) + b.n * (a.d \div g), a.d * (b.d \div g))
Sub(a, b) == Add(a, [n |-> -b.n, d |-> b.d])

\* a < b; every comparison with NaN is false.
Less(a, b) ==
    IF a.d = 0 \/ b.d = 0
    THEN a # NaN /\ b # NaN /\ a # b /\ (a = [n |-> -1, d |-> 0] \/ b = Inf)
    ELSE LET g == GCD(a.d, b.d)
         IN  a.n * (b.d \div g) < b.n * (a.d \div g)

----------------------------------------------------------------------------
(* Constants of the program. *)

INITIAL_INVESTMENT == 10000

\* resample('W'): weekly bins, each ending on a Sunday.  Dates are day
\* numbers; the days divisible by DaysPerWeek are the Sundays.
DaysPerWeek == 7

\* simpledialog.askstring returns None when the dialog is cancelled.
None == "<None>"

----------------------------------------------------------------------------
(* Data frames: a sequence of rows, ascending by Date, dates unique. *)

Bar(date, open, close, volume) ==
    [Date |-> date, Open |-> F(open),
     High |-> F(IF open < close THEN close ELSE open),
     Low |-> F(IF open < close THEN open ELSE close),
     Close |-> F(close), Volume |-> volume]

\* Mutant of empty: the empty-data check never fires.
empty_never(data) == FALSE

\* DataFrame.empty
empty(data) == Len(data) = 0

\* Mutant of calculate_investment: the buy price is taken from the last bar.
calculate_investment_last(data, initial_investment) ==
    IF Len(data) = 0
    THEN [raised |-> "IndexError"]
    ELSE LET buy_price == data[Len(data)].Close
             stock_value == Div(F(initial_investment), buy_price)
             valued == [i \in 1..Len(data) |->
                          [Date |-> data[i].Date, Open |-> data[i].Open,
                           High |-> data[i].High, Low |-> data[i].Low,
                           Close |-> data[i].Close, Volume |-> data[i].Volume,
                           InvestmentValue |-> Mul(stock_value, data[i].Close)]]
         IN  [raised |-> "", data |-> valued, buy_price |-> buy_price,
              final_value |-> valued[Len(valued)].InvestmentValue]

\* calculate_investment.  data['Close'].iloc[0] raises IndexError on an empty
\* frame; the division is numpy's, which gives inf or NaN for a zero divisor.
calculate_investment(data, initial_investment) ==
    IF Len(data) = 0
    THEN [raised |-> "IndexError"]
    ELSE LET buy_price == data[1].Close
             stock_value == Div(F(initial_investment), buy_price)
             valued == [i \in 1..Len(data) |->
                          [Date |-> data[i].Date, Open |-> data[i].Open,
                           High |-> data[i].High, Low |-> data[i].Low,
                           Close |-> data[i].Close, Volume |-> data[i].Volume,
                           InvestmentValue |-> Mul(stock_value, data[i].Close)]]
         IN  [raised |-> "", data |-> valued, buy_price |-> buy_price,
              final_value |-> valued[Len(valued)].InvestmentValue]

\* The label of the weekly bin a date falls in: the Sunday on or after it.
WeekLabel(date) == ((date + DaysPerWeek - 1) \div DaysPerWeek) * DaysPerWeek

\* The rows of data whose date falls in the bin labelled label, in order.
RECURSIVE Bucket(_, _)
Bucket(data, label) ==
    IF Len(data) = 0 THEN <<>>
    ELSE IF WeekLabel(Head(data).Date) = label
         THEN <<Head(data)>> \o Bucket(Tail(data), label)
         ELSE Bucket(Tail(data), label)

RECURSIVE AggMax(_), AggMin(_), AggSum(_)
AggMax(s) ==
    IF Len(s) = 0 THEN NaN
    ELSE IF Len(s) = 1 THEN s[1]
    ELSE LET m == AggMax(Tail(s)) IN IF Less(m, s[1]) THEN s[1] ELSE m
AggMin(s) ==
    IF Len(s) = 0 THEN NaN
    ELSE IF Len(s) = 1 THEN s[1]
    ELSE LET m == AggMin(Tail(s)) IN IF Less(s[1], m) THEN s[1] ELSE m
AggSum(s) == IF Len(s) = 0 THEN 0 ELSE s[1] + AggSum(Tail(s))
AggFirst(s) == IF Len(s) = 0 THEN NaN ELSE s[1]
AggLast(s) == IF Len(s) = 0 THEN NaN ELSE s[Len(s)]

Column(rows, name) == [i \in 1..Len(rows) |-> rows[i][name]]

\* One output row of resample('W').agg(...): the aggregate of one bin.
WeekRow(data, label) ==
    LET b == Bucket(data, label)
    IN  [Date |-> label,
         Open |-> AggFirst(Column(b, "Open")),
         High |-> AggMax(Column(b, "High")),
         Low |-> AggMin(Column(b, "Low")),
         Close |-> AggLast(Column(b, "Close")),
         Volume |-> AggSum(Column(b, "Volume"))]

\* Mutant of resample_data: the bin of the last week is left out.
resample_data_short(data) ==
    IF Len(data) = 0 THEN <<>>
    ELSE LET first == WeekLabel(data[1].Date)
             final == WeekLabel(data[Len(data)].Date)
             nbins == (final - first) \div DaysPerWeek
         IN  [k \in 1..nbins |-> WeekRow(data, first + (k - 1) * DaysPerWeek)]

\* resample_data.  pandas makes one bin for every week from the week of the
\* first row to the week of the last row, and one output row for every bin.
resample_data(data) ==
    IF Len(data) = 0 THEN <<>>
    ELSE LET first == WeekLabel(data[1].Date)
             final == WeekLabel(data[Len(data)].Date)
             nbins == (final - first) \div DaysPerWeek + 1
         IN  [k \in 1..nbins |-> WeekRow(data, first + (k - 1) * DaysPerWeek)]

----------------------------------------------------------------------------
(* The display. *)

Blank == [kind |-> "blank"]
NoCanvas == [kind |-> "none"]

\* display_results: the text the results widget holds afterwards.
display_results(ticker, initial_investment, buy_price, final_value) ==
    [kind |-> "results", ticker |-> ticker,
     initial_investment |-> initial_investment,
     buy_price |-> buy_price, final_value |-> final_value]

\* display_chart: the canvas the chart frame holds afterwards (every earlier
\* canvas is destroyed).  ticker is not drawn; it records whose chart this is.
display_chart(ticker, data) ==
    [kind |-> "chart", rows |-> resample_data(data), ticker |-> ticker]

\* The message of the empty-data branch.
NoDataFound(ticker) == [kind |-> "message", text |-> "No data found for", ticker |-> ticker]

----------------------------------------------------------------------------
(* backtest_stock, the handler of the "Backtest Stock" button. *)

Tickers == {"AAPL", "ZZZZ"}
TickerInputs == Tickers \cup {None, ""}

\* What fetch_data can return: no bar, or up to MaxFetch daily bars from
\* Monday (day 1) on, each with a close in 0..MaxClose.
FetchResults ==
    UNION {{[i \in 1..n |-> Bar(i, closes[i], closes[i], 1)] :
               closes \in [1..n -> 0..MaxClose]} : n \in 0..MaxFetch}

\* An exception raised by calculate_investment leaves the handler there: Tk
\* reports it and the display stays as it was.
backtest_stock(ticker, fetched) ==
    IF ticker \in {None, ""}
    THEN /\ last' = [ticker |-> ticker, data |-> <<>>,
                     calls |-> <<"get_ticker_symbol">>, outcome |-> "Cancelled"]
         /\ UNCHANGED <<text_area, chart_frame>>
    ELSE IF empty(fetched)
    THEN /\ text_area' = NoDataFound(ticker)
         /\ last' = [ticker |-> ticker, data |-> fetched,
                     calls |-> <<"get_ticker_symbol", "fetch_data">>,
                     outcome |-> "EmptyDataSignal"]
         /\ UNCHANGED chart_frame
    ELSE LET r == calculate_investment(fetched, INITIAL_INVESTMENT)
         IN  IF r.raised # ""
             THEN /\ last' = [ticker |-> ticker, data |-> fetched,
                              calls |-> <<"get_ticker_symbol", "fetch_data",
                                          "calculate_investment">>,
                              outcome |-> r.raised]
                  /\ UNCHANGED <<text_area, chart_frame>>
             ELSE /\ text_area' = display_results(ticker, INITIAL_INVESTMENT,
                                                  r.buy_price, r.final_value)
                  /\ chart_frame' = display_chart(ticker, r.data)
                  /\ last' = [ticker |-> ticker, data |-> fetched,
                              calls |-> <<"get_ticker_symbol", "fetch_data",
                                          "calculate_investment", "display_results",
                                          "display_chart">>,
                              outcome |-> "BacktestResult"]

BacktestStock ==
    /\ \E ticker \in TickerInputs, fetched \in FetchResults :
          backtest_stock(ticker, fetched)
    /\ UNCHANGED <<calc_vars, rs_vars, zoom_vars, drag_vars>>

----------------------------------------------------------------------------
(* calculate_investment and resample_data on their own. *)

Capitals == {1, 7, INITIAL_INVESTMENT}

\* Close-price series of 1..MaxFetch+1 daily bars from Monday on.
CalcInputs ==
    UNION {{[i \in 1..n |-> Bar(i, closes[i], closes[i], 1)] :
               closes \in [1..n -> 0..MaxClose]} : n \in 1..(MaxFetch + 1)}

CalculateInvestment ==
    /\ calc_out = <<>>
    /\ calc_in.data # <<>>
    /\ calc_out' = <<calculate_investment(calc_in.data, calc_in.initial_investment)>>
    /\ UNCHANGED <<calc_in, backtest_vars, rs_vars, zoom_vars, drag_vars>>

\* The dates a series may carry: three calendar weeks, so that a series can
\* skip a whole week between two of its bars.
Days == 1..(2 * DaysPerWeek + 1)

\* The (open, close, volume) of a bar.
Shapes == {<<1, 2, 1>>, <<3, 1, 2>>}

IsAscending(s) == \A i \in 1..(Len(s) - 1) : s[i].Date < s[i + 1].Date

ResampleInputs ==
    {s \in UNION {[1..n -> {Bar(d, sh[1], sh[2], sh[3]) : d \in Days, sh \in Shapes}] :
                     n \in 0..MaxBars} : IsAscending(s)}

ResampleData ==
    /\ rs_out = <<>>
    /\ rs_out' = <<resample_data(rs_in)>>
    /\ UNCHANGED <<rs_in, backtest_vars, calc_vars, zoom_vars, drag_vars>>

----------------------------------------------------------------------------
(* on_chart_zoom, the handler of the chart canvas's scroll_event. *)

\* Mutant of ScaleFactor: the two factors are swapped.
ScaleFactor_swapped(button) ==
    IF button = "up" THEN Norm(9, 10)
    ELSE IF button = "down" THEN Norm(11, 10)
    ELSE F(1)

\* Mutant of ScaleFactor: the 'down' factor is the inverse of the 'up' factor.
ScaleFactor_inverse(button) ==
    IF button = "up" THEN Norm(11, 10)
    ELSE IF button = "down" THEN Norm(10, 11)
    ELSE F(1)

\* scale_factor = 1.1 if event.button == 'up' else 0.9 if event.button == 'down' else 1
ScaleFactor(button) ==
    IF button = "up" THEN Norm(11, 10)
    ELSE IF button = "down" THEN Norm(9, 10)
    ELSE F(1)

\* Mutant of ZoomLim: the upper bound is taken below the pivot.
ZoomLim_below(lim, pivot, scale_factor) ==
    <<Sub(pivot, Mul(Sub(pivot, lim[1]), scale_factor)),
      Sub(pivot, Mul(Sub(lim[2], pivot), scale_factor))>>

\* [pivot - (pivot - lim[0]) * scale_factor, pivot + (lim[1] - pivot) * scale_factor]
ZoomLim(lim, pivot, scale_factor) ==
    <<Sub(pivot, Mul(Sub(pivot, lim[1]), scale_factor)),
      Add(pivot, Mul(Sub(lim[2], pivot), scale_factor))>>

on_chart_zoom(event) ==
    /\ IF ~event.inaxes
       THEN UNCHANGED <<xlim, ylim>>
       ELSE LET scale_factor == ScaleFactor(event.button)
            IN  /\ xlim' = ZoomLim(xlim, event.xdata, scale_factor)
                /\ ylim' = ZoomLim(ylim, event.ydata, scale_factor)
    /\ zoom_log' = Append(zoom_log, [event |-> event, xlim |-> xlim', ylim |-> ylim'])

\* matplotlib's scroll events carry 'up' or 'down'; "other" is any other value.
Buttons == {"up", "down", "other"}
XPivots == {0, 40, 60}
YPivots == {20, 30}
InitialXLims == {<<F(0), F(100)>>, <<F(-10), F(50)>>}
InitialYLims == {<<F(0), F(50)>>}

Within(lim, v) == ~Less(v, lim[1]) /\ ~Less(lim[2], v)

\* A scroll with the pointer over the axes: the pivot is within the bounds.
ScrollInAxes ==
    /\ Len(zoom_log) <= MaxGestures
    /\ \E button \in Buttons, x \in XPivots, y \in YPivots :
          /\ Within(xlim, F(x)) /\ Within(ylim, F(y))
          /\ on_chart_zoom([inaxes |-> TRUE, button |-> button,
                            xdata |-> F(x), ydata |-> F(y)])
    /\ UNCHANGED <<backtest_vars, calc_vars, rs_vars, drag_vars>>

\* A scroll with the pointer outside the axes: inaxes, xdata and ydata are None.
ScrollOutside ==
    /\ Len(zoom_log) <= MaxGestures
    /\ \E button \in Buttons :
          on_chart_zoom([inaxes |-> FALSE, button |-> button,
                         xdata |-> NaN, ydata |-> NaN])
    /\ UNCHANGED <<backtest_vars, calc_vars, rs_vars, drag_vars>>

----------------------------------------------------------------------------
(* on_drag_start and on_drag_motion, bound by make_draggable to <Button-1>  *)
(* and <B1-Motion>.  The pointer is given in the parent's coordinates; Tk   *)
(* hands the handler event.x, event.y relative to the widget's own origin.  *)

Pointers == {<<0, 0>>, <<5, 5>>, <<10, 10>>, <<3, 3>>, <<2, 7>>}

\* event.x, event.y of a pointer position
EventXY(pointer) == <<pointer[1] - widget_pos[1], pointer[2] - widget_pos[2]>>

OnWidget(pointer) ==
    /\ EventXY(pointer)[1] \in 0..(WidgetSize - 1)
    /\ EventXY(pointer)[2] \in 0..(WidgetSize - 1)

PointerNow == IF samples = <<>> THEN press.ptr ELSE samples[Len(samples)]

on_drag_start(event) == drag_start' = <<event[1], event[2]>>

\* Mutant of on_drag_motion: the offset of the press is not subtracted.
on_drag_motion_no_offset(event) ==
    LET x == widget_pos[1] + event[1]
        y == widget_pos[2] + event[2]
    IN  widget_pos' = <<x, y>>

on_drag_motion(event) ==
    LET x == widget_pos[1] - drag_start[1] + event[1]
        y == widget_pos[2] - drag_start[2] + event[2]
    IN  widget_pos' = <<x, y>>

Button1Press ==
    /\ ~button1
    /\ \E pointer \in Pointers :
          /\ OnWidget(pointer)
          /\ on_drag_start(EventXY(pointer))
          /\ press' = [pos |-> widget_pos, ptr |-> pointer]
    /\ button1' = TRUE
    /\ samples' = <<>>
    /\ UNCHANGED <<widget_pos, backtest_vars, calc_vars, rs_vars, zoom_vars>>

B1Motion ==
    /\ button1
    /\ Len(samples) < MaxSamples
    /\ \E pointer \in Pointers \ {PointerNow} :
          /\ on_drag_motion(EventXY(pointer))
          /\ samples' = Append(samples, pointer)
    /\ UNCHANGED <<drag_start, button1, press, backtest_vars, calc_vars, rs_vars, zoom_vars>>

\* No handler is bound to the release: only the button goes up.
Button1Release ==
    /\ button1
    /\ button1' = FALSE
    /\ UNCHANGED <<widget_pos, drag_start, press, samples,
                   backtest_vars, calc_vars, rs_vars, zoom_vars>>

----------------------------------------------------------------------------
(* Specifications. *)

BacktestIdle ==
    /\ text_area = Blank
    /\ chart_frame = NoCanvas
    /\ last = [ticker |-> None, data |-> <<>>, calls |-> <<>>, outcome |-> "None"]

CalcIdle == calc_in = [data |-> <<>>, initial_investment |-> INITIAL_INVESTMENT] /\ calc_out = <<>>

ResampleIdle == rs_in = <<>> /\ rs_out = <<>>

ZoomIdle ==
    /\ xlim = <<F(0), F(1)>>
    /\ ylim = <<F(0), F(1)>>
    /\ zoom_log = <<[event |-> [inaxes |-> FALSE, button |-> "", xdata |-> NaN, ydata |-> NaN],
                     xlim |-> xlim, ylim |-> ylim]>>

DragIdle ==
    /\ widget_pos = <<0, 0>>
    /\ drag_start = <<>>
    /\ button1 = FALSE
    /\ press = [pos |-> <<0, 0>>, ptr |-> <<0, 0>>]
    /\ samples = <<>>

\* The application after construction; the "Backtest Stock" button is pressed
\* any number of times.
Init == BacktestIdle /\ CalcIdle /\ ResampleIdle /\ ZoomIdle /\ DragIdle
Next == BacktestStock
Spec == Init /\ [][Next]_vars

\* calculate_investment applied to a non-empty series and a capital.
InitCalc ==
    /\ calc_in \in [data : CalcInputs, initial_investment : Capitals]
    /\ calc_out = <<>>
    /\ BacktestIdle /\ ResampleIdle /\ ZoomIdle /\ DragIdle
NextCalc == CalculateInvestment
SpecCalc == InitCalc /\ [][NextCalc]_vars

\* resample_data applied to a series ascending by date.
InitResample ==
    /\ rs_in \in ResampleInputs
    /\ rs_out = <<>>
    /\ BacktestIdle /\ CalcIdle /\ ZoomIdle /\ DragIdle
NextResample == ResampleData
SpecResample == InitResample /\ [][NextResample]_vars

\* A chart has been drawn; scroll events arrive on its canvas.
InitZoom ==
    /\ xlim \in InitialXLims
    /\ ylim \in InitialYLims
    /\ zoom_log = <<[event |-> [inaxes |-> FALSE, button |-> "", xdata |-> NaN, ydata |-> NaN],
                     xlim |-> xlim, ylim |-> ylim]>>
    /\ BacktestIdle /\ CalcIdle /\ ResampleIdle /\ DragIdle
NextZoom == ScrollInAxes \/ ScrollOutside
SpecZoom == InitZoom /\ [][NextZoom]_vars

\* make_draggable has bound the two handlers to the widget.
InitDrag == DragIdle /\ BacktestIdle /\ CalcIdle /\ ResampleIdle /\ ZoomIdle
NextDrag == Button1Press \/ B1Motion \/ Button1Release
SpecDrag == InitDrag /\ [][NextDrag]_vars

----------------------------------------------------------------------------
(* Properties. *)

Called(name) == \E i \in 1..Len(last.calls) : last.calls[i] = name

\* C1: a backtest request whose fetch returns zero bars ends with the
\* 'No data found' message for its ticker, and calculate_investment is not
\* called during the request.
C1_EmptyFetchEndsInMessage ==
    (Called("fetch_data") /\ last.data = <<>>) =>
        /\ last.outcome = "EmptyDataSignal"
        /\ text_area = NoDataFound(last.ticker)
        /\ ~Called("calculate_investment")

C1_Witness ==
    /\ Called("fetch_data") /\ last.data = <<>>
    /\ last.ticker = "ZZZZ"
    /\ chart_frame.kind = "chart"

\* C2: a request whose series is non-empty and starts with a close of 0 ends
\* in a DataQualityError, and no buy price or final value is displayed.
C2_ZeroFirstCloseIsDataQualityError ==
    (Called("fetch_data") /\ last.data # <<>> /\ last.data[1].Close = F(0)) =>
        /\ last.outcome = "DataQualityError"
        /\ text_area.kind # "results"

\* C3: the display shows the full result of one request (its results text
\* with its chart) or only a message; after a request that ended in the
\* empty-data message no chart of an earlier request is displayed.
C3_FullResultOrMessageOnly ==
    /\ text_area.kind = "results" =>
          chart_frame.kind = "chart" /\ chart_frame.ticker = text_area.ticker
    /\ text_area.kind = "message" => chart_frame = NoCanvas
    /\ last.outcome = "EmptyDataSignal" =>
          text_area.kind = "message" /\ chart_frame = NoCanvas

\* C4: for a non-empty series with a non-zero first close and a capital > 0,
\* calculate_investment returns the first close as buy_price, one value per
\* bar with value * buy_price = capital * close (value / close is the same
\* constant capital / buy_price wherever close is not 0), and the value of
\* the last bar as final_value.
C4_InvestmentValues ==
    (/\ calc_out # <<>>
     /\ calc_in.data[1].Close # F(0)
     /\ calc_in.initial_investment > 0) =>
        LET r == calc_out[1]
            data == calc_in.data
            capital == F(calc_in.initial_investment)
        IN  /\ r.raised = ""
            /\ r.buy_price = data[1].Close
            /\ Len(r.data) = Len(data)
            /\ \A i \in 1..Len(data) :
                  /\ r.data[i].Date = data[i].Date
                  /\ r.data[i].Close = data[i].Close
                  /\ IsFinite(r.data[i].InvestmentValue)
                  /\ Mul(r.data[i].InvestmentValue, data[1].Close) = Mul(capital, data[i].Close)
                  /\ data[i].Close # F(0) =>
                        Div(r.data[i].InvestmentValue, data[i].Close) = Div(capital, data[1].Close)
            /\ Mul(r.final_value, data[1].Close) = Mul(capital, data[Len(data)].Close)

C4_Witness ==
    /\ calc_out # <<>>
    /\ calc_in.initial_investment = INITIAL_INVESTMENT
    /\ Len(calc_in.data) = 3
    /\ calc_in.data[1].Close = F(2)
    /\ calc_in.data[2].Close = F(0)
    /\ calc_in.data[3].Close = F(1)
    /\ calc_out[1].final_value = F(5000)

\* A row of the output covers (Date - DaysPerWeek, Date]: the week ending on Date.
InWeek(row, bar) == row.Date - DaysPerWeek < bar.Date /\ bar.Date <= row.Date

\* C5: resample_data emits no output row for a calendar week that holds no
\* input bar: every output row aggregates at least one input bar.
C5_NoRowForEmptyWeek ==
    rs_out # <<>> =>
        \A k \in 1..Len(rs_out[1]) :
            \E i \in 1..Len(rs_in) : InWeek(rs_out[1][k], rs_in[i])

\* C6: for a non-empty ascending series, every input bar falls in the week of
\* exactly one output row, and the output volumes add up to the input volumes.
C6_PartitionAndVolume ==
    (rs_out # <<>> /\ rs_in # <<>>) =>
        /\ \A i \in 1..Len(rs_in) :
              Cardinality({k \in 1..Len(rs_out[1]) : InWeek(rs_out[1][k], rs_in[i])}) = 1
        /\ AggSum(Column(rs_out[1], "Volume")) = AggSum(Column(rs_in, "Volume"))

C6_Witness ==
    /\ rs_out # <<>>
    /\ Len(rs_in) = 3
    /\ rs_in[1].Date = 2 /\ rs_in[2].Date = 5 /\ rs_in[3].Date = 9
    /\ Len(rs_out[1]) = 2
    /\ rs_out[1][1].Volume = rs_in[1].Volume + rs_in[2].Volume
    /\ rs_out[1][1].Volume = 3

\* new is old zoomed about pivot by factor:
\* new_min = pivot - (pivot - old_min) * factor, new_max = pivot + (old_max - pivot) * factor.
ZoomedBy(old, new, pivot, factor) ==
    /\ new[1] = Sub(pivot, Mul(Sub(pivot, old[1]), factor))
    /\ new[2] = Add(pivot, Mul(Sub(old[2], pivot), factor))

\* Both axes of the i-th logged gesture were zoomed about its pivot by factor.
GestureZoomedBy(i, factor) ==
    /\ ZoomedBy(zoom_log[i - 1].xlim, zoom_log[i].xlim, zoom_log[i].event.xdata, factor)
    /\ ZoomedBy(zoom_log[i - 1].ylim, zoom_log[i].ylim, zoom_log[i].event.ydata, factor)

Gestures == 2..Len(zoom_log)

\* The zoom-in gesture is the scroll that narrows the bounds, 'down'; the
\* zoom-out gesture is the scroll that widens them, 'up'.
IsZoomIn(i) == zoom_log[i].event.inaxes /\ zoom_log[i].event.button = "down"
IsZoomOut(i) == zoom_log[i].event.inaxes /\ zoom_log[i].event.button = "up"

StrictlyInside(lim, v) == Less(lim[1], v) /\ Less(v, lim[2])

\* C7 as stated: a zoom gesture with its pivot inside the axes zooms each
\* axis about the pivot by 1/1.1 (zoom-in) or by 1.1 (zoom-out).
C7_FactorsAsStated ==
    \A i \in Gestures :
        /\ IsZoomIn(i) => GestureZoomedBy(i, Norm(10, 11))
        /\ IsZoomOut(i) => GestureZoomedBy(i, Norm(11, 10))

\* C7 as amended: a zoom gesture with its pivot inside the axes zooms each
\* axis about the pivot by 0.9 (zoom-in, scroll 'down') or by 1.1 (zoom-out,
\* scroll 'up').
C7_ZoomFactors ==
    \A i \in Gestures :
        /\ IsZoomIn(i) => GestureZoomedBy(i, Norm(9, 10))
        /\ IsZoomOut(i) => GestureZoomedBy(i, Norm(11, 10))

C7_Witness ==
    /\ Len(zoom_log) >= 3
    /\ zoom_log[1].xlim = <<F(0), F(100)>>
    /\ IsZoomIn(2) /\ zoom_log[2].event.xdata = F(40) /\ zoom_log[2].event.ydata = F(20)
    /\ zoom_log[2].xlim = <<F(4), F(94)>>
    /\ zoom_log[2].ylim = <<F(2), F(47)>>
    /\ IsZoomOut(3) /\ zoom_log[3].event.xdata = F(60)
    /\ zoom_log[3].xlim = <<Norm(-16, 10), Norm(974, 10)>>

StrictPivot(i) ==
    /\ zoom_log[i].event.inaxes
    /\ StrictlyInside(zoom_log[i - 1].xlim, zoom_log[i].event.xdata)
    /\ StrictlyInside(zoom_log[i - 1].ylim, zoom_log[i].event.ydata)

\* C8: from bounds with x_min < x_max and y_min < y_max, after any sequence
\* of scroll events the bounds still satisfy x_min < x_max and y_min < y_max,
\* and the pivot of each gesture that lay strictly inside the bounds lies
\* strictly inside the bounds the gesture produces.
C8_BoundsStayOrdered ==
    /\ Less(xlim[1], xlim[2]) /\ Less(ylim[1], ylim[2])
    /\ zoom_log[Len(zoom_log)].xlim = xlim /\ zoom_log[Len(zoom_log)].ylim = ylim
    /\ \A i \in Gestures :
          StrictPivot(i) =>
              /\ StrictlyInside(zoom_log[i].xlim, zoom_log[i].event.xdata)
              /\ StrictlyInside(zoom_log[i].ylim, zoom_log[i].event.ydata)

C8_Witness ==
    /\ Len(zoom_log) = 4
    /\ StrictPivot(2) /\ zoom_log[2].event.button = "down"
    /\ StrictPivot(3) /\ zoom_log[3].event.button = "other"
    /\ StrictPivot(4) /\ zoom_log[4].event.button = "up"
    /\ xlim # zoom_log[1].xlim

\* C10: a zoom-in followed by a zoom-out at the same pivot does not restore
\* the bounds the zoom-in started from.
C10_InThenOutDoesNotRestore ==
    \A i \in Gestures :
        (/\ i + 1 \in Gestures
         /\ IsZoomIn(i) /\ IsZoomOut(i + 1)
         /\ zoom_log[i + 1].event.xdata = zoom_log[i].event.xdata
         /\ zoom_log[i + 1].event.ydata = zoom_log[i].event.ydata) =>
            /\ zoom_log[i + 1].xlim # zoom_log[i - 1].xlim
            /\ zoom_log[i + 1].ylim # zoom_log[i - 1].ylim

C10_Witness ==
    /\ Len(zoom_log) >= 3
    /\ zoom_log[1].xlim = <<F(0), F(100)>>
    /\ IsZoomIn(2) /\ IsZoomOut(3)
    /\ zoom_log[2].event.xdata = F(40) /\ zoom_log[3].event.xdata = F(40)
    /\ zoom_log[2].event.ydata = F(20) /\ zoom_log[3].event.ydata = F(20)
    /\ zoom_log[3].xlim = <<Norm(4, 10), Norm(994, 10)>>

====
